---- MODULE Spec2Model ----
(***************************************************************************)
(* Model of etl/main.py: the NASA NEO extract-transform-load function.     *)
(*                                                                         *)
(* The external services are state: the clock (datetime.utcnow), the feed  *)
(* API (the log of requests made to it), the bucket (path -> body, and the *)
(* log of uploads) and the warehouse table (the rows, and the log of       *)
(* insert_rows_json calls).  Each invocation of etl_nasa_neo is a process  *)
(* whose position is pc[i]; the clock may advance between any two steps,   *)
(* and between any two iterations of the loop of transform_records.        *)
(***************************************************************************)
EXTENDS Integers, Sequences, FiniteSets, TLC

(* ------------------------------ bounds --------------------------------- *)

\* The clock runs from 0 to MaxClock ticks.
MaxClock == 3

\* Ticks in one UTC day: midnight falls between tick TicksPerDay-1 and the next.
TicksPerDay == 2

\* Longest list of asteroid objects the feed returns under one date.
MaxObjs == 2

\* Direct calls of load_to_bigquery in the Loader's own specification.
MaxDirect == 1

(* --------------------------- module globals ---------------------------- *)

\* os.environ.get of a variable that is not set
None == "<None>"

EnvValues == {None, "", "k"}

BQ_DATASET == "nasa_neo"

BQ_TABLE == "raw_neo_feed"

\* Python truthiness of an Optional[str]
Truthy(v) == v # None /\ v # ""

(* ------------------------------- dates --------------------------------- *)

NoDate == [year |-> 0, month |-> 0, day |-> 0]

IsLeap(y) == (y % 4 = 0 /\ y % 100 # 0) \/ y % 400 = 0

DaysIn(y, m) ==
    IF m = 2 THEN (IF IsLeap(y) THEN 29 ELSE 28)
    ELSE IF m \in {4, 6, 9, 11} THEN 30 ELSE 31

NextDay(d) ==
    IF d.day < DaysIn(d.year, d.month) THEN [d EXCEPT !.day = d.day + 1]
    ELSE IF d.month < 12 THEN [d EXCEPT !.month = d.month + 1, !.day = 1]
    ELSE [year |-> d.year + 1, month |-> 1, day |-> 1]

RECURSIVE AddDays(_, _)
AddDays(d, n) == IF n = 0 THEN d ELSE AddDays(NextDay(d), n - 1)

\* datetime.utcnow().date() when the clock reads t; tick 0 is on 2024-12-31
UtcToday(t) == AddDays([year |-> 2024, month |-> 12, day |-> 31], t \div TicksPerDay)

\* format spec :02d
Pad2(n) == IF n < 10 THEN "0" \o ToString(n) ELSE ToString(n)

Pad4(n) ==
    IF n < 10 THEN "000" \o ToString(n)
    ELSE IF n < 100 THEN "00" \o ToString(n)
    ELSE IF n < 1000 THEN "0" \o ToString(n) ELSE ToString(n)

\* str(date): ISO format YYYY-MM-DD
DateStr(d) == Pad4(d.year) \o "-" \o Pad2(d.month) \o "-" \o Pad2(d.day)

\* datetime.utcnow().isoformat() when the clock reads t (time of day in ticks)
UtcNowIso(t) == DateStr(UtcToday(t)) \o "T" \o Pad2(t % TicksPerDay)

\* the blob path of save_raw_to_gcs
BlobPath(d) ==
    "raw/neo/" \o ToString(d.year) \o "/" \o Pad2(d.month) \o "/" \o Pad2(d.day)
        \o "/neo_" \o DateStr(d) \o ".json"

\* json.dumps: the text of a value
json_dumps(v) == ToString(v)

\* dict.get(key, default)
DictGet(m, k, default) == IF k \in DOMAIN m THEN m[k] ELSE default

(* ----------------------------- feed payloads --------------------------- *)

\* A JSON scalar of the feed: a number, or a string that float() can or
\* cannot parse.  val is the number in tenths.
Num(n) == [kind |-> "number", numeric |-> TRUE, val |-> n]

NumStr(n) == [kind |-> "string", numeric |-> TRUE, val |-> n]

\* a string that is no number; n tells one such text from another
BadStr(n) == [kind |-> "string", numeric |-> FALSE, val |-> n]

\* float(x) raises ValueError
FloatRaises(x) == ~x.numeric

\* float(x), when it does not raise
Float(x) == x.val

Approach(date, vel, dist, body) ==
    [close_approach_date |-> date,
     relative_velocity |-> [kilometers_per_second |-> vel],
     miss_distance |-> [kilometers |-> dist],
     orbiting_body |-> body]

Neo(id, name, mag, dmin, dmax, hazard, approaches) ==
    [neo_reference_id |-> id,
     name |-> name,
     absolute_magnitude_h |-> mag,
     estimated_diameter |->
        [kilometers |-> [estimated_diameter_min |-> dmin,
                         estimated_diameter_max |-> dmax]],
     is_potentially_hazardous_asteroid |-> hazard,
     close_approach_data |-> approaches]

\* close approaches on the day asked for and on the day after
ApproachA(day) == Approach(DateStr(day), NumStr(124), NumStr(4500000), "Earth")

ApproachB(day) == Approach(DateStr(NextDay(day)), NumStr(71), Num(90000), "Mars")

ApproachBad(day) == Approach(DateStr(day), BadStr(1), NumStr(10), "Earth")

\* The asteroid objects the feed draws its answer for a day from: one
\* approach; no approach (and a magnitude float() would reject); two
\* approaches; one approach with a velocity float() rejects.
ObjectPool(day) ==
    << Neo("2440012", "12 Foo", NumStr(193), Num(3), Num(7), FALSE, <<ApproachA(day)>>),
       Neo("54016", "No Pass", BadStr(2), Num(5), Num(6), FALSE, <<>>),
       Neo("3542519", "2010 PK9", Num(210), Num(1), Num(2), TRUE,
           <<ApproachB(day), ApproachA(day)>>),
       Neo("99942", "Bad Vel", Num(190), Num(3), Num(4), TRUE, <<ApproachBad(day)>>) >>

\* The object lists of the smaller specifications: empty, one object that
\* yields a record, one that is skipped, and both.
SmallFeeds(day) ==
    { << >>, <<ObjectPool(day)[1]>>, <<ObjectPool(day)[2]>>,
      <<ObjectPool(day)[2], ObjectPool(day)[1]>> }

Range(s) == {s[k] : k \in 1..Len(s)}

SeqsUpTo(S, n) == UNION {[1..k -> S] : k \in 0..n}

\* The dates the clock shows up to tick n
ClockDates(n) == {UtcToday(t) : t \in 0..n}

\* resp.json(): no date key at all, or one date key with up to n objects
PayloadsOf(pool, dates, n) ==
    {[near_earth_objects |-> << >>]} \cup
    {[near_earth_objects |-> (DateStr(d) :> objs)] :
        d \in dates, objs \in SeqsUpTo(pool, n)}

\* What the feed may answer to a request for a date: any date key
Payloads(today) == PayloadsOf(Range(ObjectPool(today)), ClockDates(MaxClock), MaxObjs)

\* The smaller feed: the key of the requested date, or none
PayloadsSmall(today) ==
    {[near_earth_objects |-> << >>]} \cup
    {[near_earth_objects |-> (DateStr(today) :> objs)] : objs \in SmallFeeds(today)}

NoData == [near_earth_objects |-> << >>]

(* ------------------------------- state --------------------------------- *)

Invs == {1, 2}

VARIABLES
    env,          \* NASA_API_KEY, BUCKET_NAME, BQ_PROJECT as read at import
    clock,        \* the UTC clock, in ticks
    pc,           \* pc[i]: where invocation i of etl_nasa_neo stands
    data,         \* data[i]: the payload fetch_nasa_data returned
    date,         \* date[i]: the date fetch_nasa_data returned
    neos,         \* neos[i]: the list transform_records iterates over
    idx,          \* idx[i]: position of its for loop
    records,      \* records[i]: the records built so far / returned
    response,     \* response[i]: what etl_nasa_neo returned
    fetchCalls,   \* requests.get calls, in order
    writeCalls,   \* blob.upload_from_string calls, in order
    insertCalls,  \* client.insert_rows_json calls, in order
    store,        \* the bucket: blob path -> body
    table         \* the rows of the warehouse table, in order

vars == <<env, clock, pc, data, date, neos, idx, records, response,
          fetchCalls, writeCalls, insertCalls, store, table>>

local == <<data, date, neos, idx, records, response>>

external == <<fetchCalls, writeCalls, insertCalls, store, table>>

NoResponse == [code |-> 0, body |-> "", headers |-> << >>]

Init ==
    /\ env \in [{"NASA_API_KEY", "BUCKET_NAME", "BQ_PROJECT"} -> EnvValues]
    /\ clock = 0
    /\ pc = [i \in Invs |-> "unconfigured"]
    /\ data = [i \in Invs |-> NoData]
    /\ date = [i \in Invs |-> NoDate]
    /\ neos = [i \in Invs |-> << >>]
    /\ idx = [i \in Invs |-> 1]
    /\ records = [i \in Invs |-> << >>]
    /\ response = [i \in Invs |-> NoResponse]
    /\ fetchCalls = << >>
    /\ writeCalls = << >>
    /\ insertCalls = << >>
    /\ store = << >>
    /\ table = << >>

(* --------------------------- pure functions ---------------------------- *)

\* the test of line 94, negated
ConfigComplete_OnlyKey(e) == Truthy(e["NASA_API_KEY"])

ConfigComplete(e) ==
    Truthy(e["NASA_API_KEY"]) /\ Truthy(e["BUCKET_NAME"]) /\ Truthy(e["BQ_PROJECT"])

TableId(e) == e["BQ_PROJECT"] \o "." \o BQ_DATASET \o "." \o BQ_TABLE

\* data["near_earth_objects"].get(str(date), [])
LookupNeos_AnyDate(d, dt) ==
    LET m == d.near_earth_objects
    IN  IF DOMAIN m = {} THEN << >> ELSE m[CHOOSE k \in DOMAIN m : TRUE]

LookupNeos_Today(d, dt) ==
    DictGet(d.near_earth_objects, DateStr(UtcToday(clock)), << >>)

LookupNeos(d, dt) == DictGet(d.near_earth_objects, DateStr(dt), << >>)

\* line 47: the object is skipped
Skipped(obj) == obj.close_approach_data = << >>

\* one of the float() calls of lines 54-66 raises
CoercionRaises(obj) ==
    LET approach == obj.close_approach_data[1]
    IN  \/ FloatRaises(obj.absolute_magnitude_h)
        \/ FloatRaises(obj.estimated_diameter.kilometers.estimated_diameter_min)
        \/ FloatRaises(obj.estimated_diameter.kilometers.estimated_diameter_max)
        \/ FloatRaises(approach.relative_velocity.kilometers_per_second)
        \/ FloatRaises(approach.miss_distance.kilometers)

IngestionStamp_DateOnly(t) == DateStr(UtcToday(t))

\* line 68
IngestionStamp(t) == UtcNowIso(t)

RecordFrom(obj, approach, t) ==
    [asteroid_id |-> obj.neo_reference_id,
     name |-> obj.name,
     absolute_magnitude_h |-> Float(obj.absolute_magnitude_h),
     estimated_diameter_min_km |->
        Float(obj.estimated_diameter.kilometers.estimated_diameter_min),
     estimated_diameter_max_km |->
        Float(obj.estimated_diameter.kilometers.estimated_diameter_max),
     is_potentially_hazardous |-> obj.is_potentially_hazardous_asteroid,
     close_approach_date |-> approach.close_approach_date,
     relative_velocity_km_s |->
        Float(approach.relative_velocity.kilometers_per_second),
     miss_distance_km |-> Float(approach.miss_distance.kilometers),
     orbiting_body |-> approach.orbiting_body,
     ingestion_timestamp |-> IngestionStamp(t)]

BuildRecord_LastApproach(obj, t) ==
    RecordFrom(obj, obj.close_approach_data[Len(obj.close_approach_data)], t)

\* lines 49-69: the record of an object that is not skipped
BuildRecord(obj, t) == RecordFrom(obj, obj.close_approach_data[1], t)

\* lines 107-111
ResponseBody(recs, dt) ==
    [status |-> "success", rows_inserted |-> Len(recs), date |-> DateStr(dt)]

SuccessResponse(recs, dt) ==
    [code |-> 200,
     body |-> json_dumps(ResponseBody(recs, dt)),
     headers |-> [Content_Type |-> "application/json"]]

ErrorResponse(msg) == [code |-> 500, body |-> msg, headers |-> << >>]

\* line 104
ShouldLoad_Always(recs) == TRUE

ShouldLoad(recs) == recs # << >>

\* blob.upload_from_string on the bucket: the object at the path is replaced
Upload_KeepFirst(st, path, body) == st @@ (path :> body)

Upload(st, path, body) == (path :> body) @@ st

(* ------------------------------ actions -------------------------------- *)

\* the clock advances
Tick ==
    /\ clock < MaxClock
    /\ clock' = clock + 1
    /\ UNCHANGED <<env, pc, local, external>>

\* lines 94-97: configuration is incomplete
Abort(i) ==
    /\ pc[i] = "unconfigured"
    /\ ~ConfigComplete(env)
    /\ response' = [response EXCEPT ![i] =
                       ErrorResponse("Missing required environment variables")]
    /\ pc' = [pc EXCEPT ![i] = "aborted"]
    /\ UNCHANGED <<env, clock, data, date, neos, idx, records, external>>

\* line 94 passes
Start(i) ==
    /\ pc[i] = "unconfigured"
    /\ ConfigComplete(env)
    /\ pc' = [pc EXCEPT ![i] = "fetch"]
    /\ UNCHANGED <<env, clock, local, external>>

\* the request of lines 18-22 and what it came to: ok and the decoded body
FetchCall(i, today, ok, payload) ==
    [inv |-> i, start_date |-> DateStr(today), end_date |-> DateStr(today),
     api_key |-> env["NASA_API_KEY"], ok |-> ok, payload |-> payload]

\* fetch_nasa_data returns (payload, today)
FetchOk(i, payload) ==
    /\ pc[i] = "fetch"
    /\ LET today == UtcToday(clock)
       IN  /\ fetchCalls' = Append(fetchCalls, FetchCall(i, today, TRUE, payload))
           /\ date' = [date EXCEPT ![i] = today]
    /\ data' = [data EXCEPT ![i] = payload]
    /\ pc' = [pc EXCEPT ![i] = "archive"]
    /\ UNCHANGED <<env, clock, neos, idx, records, response,
                   writeCalls, insertCalls, store, table>>

FetchRaise_Swallowed(i) ==
    /\ pc[i] = "fetch"
    /\ fetchCalls' = Append(fetchCalls, FetchCall(i, UtcToday(clock), FALSE, NoData))
    /\ date' = [date EXCEPT ![i] = UtcToday(clock)]
    /\ pc' = [pc EXCEPT ![i] = "archive"]
    /\ UNCHANGED <<env, clock, data, neos, idx, records, response,
                   writeCalls, insertCalls, store, table>>

\* requests.get, raise_for_status or resp.json raises
FetchRaise(i) ==
    /\ pc[i] = "fetch"
    /\ fetchCalls' = Append(fetchCalls, FetchCall(i, UtcToday(clock), FALSE, NoData))
    /\ pc' = [pc EXCEPT ![i] = "raised"]
    /\ UNCHANGED <<env, clock, local, writeCalls, insertCalls, store, table>>

\* the upload of line 34 and whether it took effect
WriteCall(i, ok) ==
    [inv |-> i, bucket |-> env["BUCKET_NAME"], path |-> BlobPath(date[i]),
     body |-> json_dumps(data[i]), content_type |-> "application/json", ok |-> ok]

ArchiveOk_Twice(i) ==
    /\ pc[i] = "archive"
    /\ writeCalls' = writeCalls \o <<WriteCall(i, TRUE), WriteCall(i, TRUE)>>
    /\ store' = Upload(store, BlobPath(date[i]), json_dumps(data[i]))
    /\ pc' = [pc EXCEPT ![i] = "transform"]
    /\ UNCHANGED <<env, clock, local, fetchCalls, insertCalls, table>>

\* save_raw_to_gcs returns
ArchiveOk(i) ==
    /\ pc[i] = "archive"
    /\ writeCalls' = Append(writeCalls, WriteCall(i, TRUE))
    /\ store' = Upload(store, BlobPath(date[i]), json_dumps(data[i]))
    /\ pc' = [pc EXCEPT ![i] = "transform"]
    /\ UNCHANGED <<env, clock, local, fetchCalls, insertCalls, table>>

\* the storage client raises: the upload was attempted and did not take effect
ArchiveRaise(i) ==
    /\ pc[i] = "archive"
    /\ writeCalls' = Append(writeCalls, WriteCall(i, FALSE))
    /\ pc' = [pc EXCEPT ![i] = "raised"]
    /\ UNCHANGED <<env, clock, local, fetchCalls, insertCalls, store, table>>

\* lines 41-43
TransformBegin(i) ==
    /\ pc[i] = "transform"
    /\ records' = [records EXCEPT ![i] = << >>]
    /\ neos' = [neos EXCEPT ![i] = LookupNeos(data[i], date[i])]
    /\ idx' = [idx EXCEPT ![i] = 1]
    /\ pc' = [pc EXCEPT ![i] = "loop"]
    /\ UNCHANGED <<env, clock, data, date, response, external>>

\* one iteration of the loop of lines 45-71
TransformStep(i) ==
    /\ pc[i] = "loop"
    /\ idx[i] <= Len(neos[i])
    /\ LET obj == neos[i][idx[i]]
       IN  IF Skipped(obj)
           THEN /\ idx' = [idx EXCEPT ![i] = idx[i] + 1]
                /\ UNCHANGED <<pc, records>>
           ELSE IF CoercionRaises(obj)
           THEN /\ pc' = [pc EXCEPT ![i] = "raised"]
                /\ UNCHANGED <<idx, records>>
           ELSE /\ records' =
                      [records EXCEPT ![i] = Append(records[i], BuildRecord(obj, clock))]
                /\ idx' = [idx EXCEPT ![i] = idx[i] + 1]
                /\ UNCHANGED pc
    /\ UNCHANGED <<env, clock, data, date, neos, response, external>>

\* transform_records returns; lines 104-105 choose the next step
TransformEnd(i) ==
    /\ pc[i] = "loop"
    /\ idx[i] > Len(neos[i])
    /\ pc' = [pc EXCEPT ![i] = IF ShouldLoad(records[i]) THEN "load" ELSE "respond"]
    /\ UNCHANGED <<env, clock, local, external>>

\* load_to_bigquery(recs) called by caller, the insert ending in outcome:
\* "ok" (no errors), "errors" (per-row errors; only the first kept rows are
\* stored) or "raise" (the client raises).
load_to_bigquery(caller, recs, outcome, kept) ==
    /\ insertCalls' = Append(insertCalls,
          [inv |-> caller, table_id |-> TableId(env), rows |-> recs,
           outcome |-> outcome])
    /\ table' = IF outcome = "ok" THEN table \o recs
                ELSE IF outcome = "errors" THEN table \o SubSeq(recs, 1, kept)
                ELSE table

KeptChoices(recs, outcome) ==
    IF outcome = "errors" /\ recs # << >> THEN 0..(Len(recs) - 1) ELSE {0}

LoadDone_RaiseOnErrors(i) ==
    /\ pc[i] = "load"
    /\ \E outcome \in {"ok", "errors"} : \E kept \in KeptChoices(records[i], outcome) :
          /\ load_to_bigquery(i, records[i], outcome, kept)
          /\ pc' = [pc EXCEPT ![i] = IF outcome = "ok" THEN "respond" ELSE "raised"]
    /\ UNCHANGED <<env, clock, local, fetchCalls, writeCalls, store>>

\* line 105: the Loader returns, with or without per-row errors
LoadDone(i) ==
    /\ pc[i] = "load"
    /\ \E outcome \in {"ok", "errors"} : \E kept \in KeptChoices(records[i], outcome) :
          load_to_bigquery(i, records[i], outcome, kept)
    /\ pc' = [pc EXCEPT ![i] = "respond"]
    /\ UNCHANGED <<env, clock, local, fetchCalls, writeCalls, store>>

\* line 105: the warehouse client raises
LoadRaise(i) ==
    /\ pc[i] = "load"
    /\ load_to_bigquery(i, records[i], "raise", 0)
    /\ pc' = [pc EXCEPT ![i] = "raised"]
    /\ UNCHANGED <<env, clock, local, fetchCalls, writeCalls, store>>

\* lines 107-112
Respond(i) ==
    /\ pc[i] = "respond"
    /\ response' = [response EXCEPT ![i] = SuccessResponse(records[i], date[i])]
    /\ pc' = [pc EXCEPT ![i] = "succeeded"]
    /\ UNCHANGED <<env, clock, data, date, neos, idx, records, external>>

\* a caller other than the entry point calls load_to_bigquery(recs)
DirectLoad(recs) ==
    /\ Len(SelectSeq(insertCalls, LAMBDA c : c.inv = 0)) < MaxDirect
    /\ \E outcome \in {"ok", "errors", "raise"} :
       \E kept \in KeptChoices(recs, outcome) :
          load_to_bigquery(0, recs, outcome, kept)
    /\ UNCHANGED <<env, clock, pc, local, fetchCalls, writeCalls, store>>

Step(i, P) ==
    \/ Abort(i)
    \/ Start(i)
    \/ \E payload \in P : FetchOk(i, payload)
    \/ FetchRaise(i)
    \/ ArchiveOk(i)
    \/ ArchiveRaise(i)
    \/ TransformBegin(i)
    \/ TransformStep(i)
    \/ TransformEnd(i)
    \/ LoadDone(i)
    \/ LoadRaise(i)
    \/ Respond(i)

\* one invocation of the entry point
Next == Tick \/ Step(1, Payloads(UtcToday(clock)))

Spec == Init /\ [][Next]_vars

\* two invocations, interleaved at every step
NextTwo == Tick \/ \E i \in Invs : Step(i, PayloadsSmall(UtcToday(clock)))

SpecTwo == Init /\ [][NextTwo]_vars

\* the records a direct caller passes to the Loader
DirectRecords == { << >>, <<BuildRecord(ObjectPool(UtcToday(clock))[1], clock)>> }

\* one invocation of the entry point, and direct calls of the Loader
NextLoader == Tick \/ Step(1, PayloadsSmall(UtcToday(clock))) \/ \E recs \in DirectRecords : DirectLoad(recs)

SpecLoader == Init /\ [][NextLoader]_vars

(* ------------------------------ claims --------------------------------- *)

CallsBy(log, i) == SelectSeq(log, LAMBDA c : c.inv = i)

NoCallsBy(i) ==
    /\ CallsBy(fetchCalls, i) = << >>
    /\ CallsBy(writeCalls, i) = << >>
    /\ CallsBy(insertCalls, i) = << >>

Missing(e) == \E k \in DOMAIN e : e[k] = None \/ e[k] = ""

\* the success response for n rows and the date text ds
Http200(n, ds) ==
    [code |-> 200,
     body |-> json_dumps([status |-> "success", rows_inserted |-> n, date |-> ds]),
     headers |-> [Content_Type |-> "application/json"]]

\* C1: when at least one of the three required configuration values is
\* missing, an invocation ends with HTTP 500 and the fixed message and makes
\* no external call: no fetch, no storage write, no insert.
C1_MissingConfigAborts ==
    Missing(env) =>
        \A i \in Invs :
            /\ NoCallsBy(i)
            /\ pc[i] \in {"unconfigured", "aborted"}
            /\ pc[i] = "aborted" =>
                  /\ response[i].code = 500
                  /\ response[i].body = "Missing required environment variables"

C1_Witness ==
    /\ pc[1] = "aborted"
    /\ env["NASA_API_KEY"] = "k" /\ env["BUCKET_NAME"] = "k"
    /\ env["BQ_PROJECT"] = None

\* C2 as claimed: no insert call ever carries an empty record sequence,
\* whoever calls the Loader.
C2_LoaderNoOpOnEmpty ==
    \A k \in 1..Len(insertCalls) : insertCalls[k].rows # << >>

\* C2 amended: the entry point never calls the Loader with an empty record
\* sequence (an invocation whose Transformer returned no records makes no
\* insert call), while every insert call the entry point makes carries the
\* records of its invocation.
C2_EntryPointSkipsEmptyLoad ==
    \A i \in Invs :
        /\ \A k \in 1..Len(insertCalls) :
              insertCalls[k].inv = i =>
                  insertCalls[k].rows # << >> /\ insertCalls[k].rows = records[i]
        /\ (pc[i] \in {"respond", "succeeded"} /\ records[i] = << >>) =>
              CallsBy(insertCalls, i) = << >>

C2_Witness ==
    /\ pc[1] = "succeeded" /\ records[1] = << >>
    /\ data[1].near_earth_objects # << >>
    /\ \E k \in 1..Len(insertCalls) :
          insertCalls[k].inv = 0 /\ insertCalls[k].rows = << >>

\* C3: when the insert call reports per-row errors the Loader does not
\* raise, and the invocation succeeds with HTTP 200, status "success" and
\* rows_inserted equal to the number of records the Transformer returned,
\* the same response as without errors.
C3_RowErrorsSwallowed ==
    \A i \in Invs : \A k \in 1..Len(insertCalls) :
        (insertCalls[k].inv = i /\ insertCalls[k].outcome \in {"ok", "errors"}) =>
            /\ pc[i] \in {"respond", "succeeded"}
            /\ pc[i] = "respond" => ENABLED Respond(i)
            /\ pc[i] = "succeeded" =>
                  response[i] = Http200(Len(insertCalls[k].rows),
                                        CallsBy(fetchCalls, i)[1].start_date)
            /\ insertCalls[k].rows = records[i]

C3_Witness ==
    /\ pc[1] = "succeeded"
    /\ Len(records[1]) = 2
    /\ \E k \in 1..Len(insertCalls) :
          insertCalls[k].inv = 1 /\ insertCalls[k].outcome = "errors"
    /\ Len(table) < 2

BothSucceededSameDate ==
    /\ \A i \in Invs : pc[i] = "succeeded"
    /\ date[1] = date[2]

\* both archived to one path, and the store holds one object there, written
\* by the last of the two uploads
ArchivedLastWriteWins ==
    /\ \A i \in Invs : Len(CallsBy(writeCalls, i)) = 1
    /\ CallsBy(writeCalls, 1)[1].path = CallsBy(writeCalls, 2)[1].path
    /\ DOMAIN store = {CallsBy(writeCalls, 1)[1].path}
    /\ LET last == writeCalls[Len(writeCalls)]
       IN  /\ store[last.path] = last.body
           /\ last.body = json_dumps(CallsBy(fetchCalls, last.inv)[1].payload)

\* C4 as claimed: two successful invocations for one date both archive to
\* the same path and both insert; the store holds one object, of the last
\* writer, and the table holds the rows of both.
C4_BothArchiveBothInsert ==
    BothSucceededSameDate =>
        /\ ArchivedLastWriteWins
        /\ \A i \in Invs : Len(CallsBy(insertCalls, i)) = 1
        /\ table \in {records[1] \o records[2], records[2] \o records[1]}

\* rows appear in the table as one contiguous run
Contains(tbl, rows) ==
    \E off \in 0..(Len(tbl) - Len(rows)) : SubSeq(tbl, off + 1, off + Len(rows)) = rows

\* C4 amended: two successful invocations for one date both archive to the
\* same path and the store holds one object there, of the last writer; each
\* invocation whose Transformer returned records makes exactly one insert
\* call and one that returned none makes no insert call; the table holds
\* the rows of every invocation whose insert reported no errors, and when no
\* insert reported errors it holds exactly the rows of both, duplicates kept.
C4_ArchiveLastWinsRowsAppended ==
    BothSucceededSameDate =>
        /\ ArchivedLastWriteWins
        /\ \A i \in Invs :
              LET ins == CallsBy(insertCalls, i)
              IN  /\ Len(ins) = (IF records[i] = << >> THEN 0 ELSE 1)
                  /\ \A k \in 1..Len(ins) :
                        /\ ins[k].rows = records[i]
                        /\ ins[k].outcome = "ok" => Contains(table, records[i])
        /\ (\A k \in 1..Len(insertCalls) : insertCalls[k].outcome = "ok") =>
              /\ table \in {records[1] \o records[2], records[2] \o records[1]}
              /\ Len(table) = Len(records[1]) + Len(records[2])

C4_Witness ==
    /\ BothSucceededSameDate
    /\ data[1] # data[2]
    /\ \A i \in Invs : records[i] # << >>
    /\ Len(insertCalls) = 2
    /\ \A k \in 1..2 : insertCalls[k].outcome = "ok"
    /\ Len(table) = 2
    /\ fetchCalls[1].inv = 1 /\ writeCalls[1].inv = 2 /\ insertCalls[1].inv = 1

\* C5: fail-fast, no rollback.  If the fetch raises there is no storage
\* write and no insert; if the archive raises there is no insert; if the
\* Transformer or the Loader raises after the archive, the archived object
\* stays as written and no insert is retried; none of these invocations
\* produces the HTTP 200 response.
C5_FailFast ==
    \A i \in Invs :
        LET f == CallsBy(fetchCalls, i)
            w == CallsBy(writeCalls, i)
            ins == CallsBy(insertCalls, i)
            failed == \/ \E k \in 1..Len(f) : ~f[k].ok
                      \/ \E k \in 1..Len(w) : ~w[k].ok
                      \/ \E k \in 1..Len(ins) : ins[k].outcome = "raise"
                      \/ pc[i] = "raised"
        IN  /\ (\E k \in 1..Len(f) : ~f[k].ok) => (w = << >> /\ ins = << >>)
            /\ (\E k \in 1..Len(w) : ~w[k].ok) => ins = << >>
            /\ (pc[i] = "raised" /\ w # << >> /\ w[1].ok) =>
                  /\ w[1].path \in DOMAIN store
                  /\ store[w[1].path] = w[1].body
                  /\ Len(ins) <= 1
            /\ failed =>
                  /\ pc[i] = "raised"
                  /\ response[i].code # 200
                  /\ ~ENABLED Step(i, Payloads(UtcToday(clock)))

C5_Witness ==
    /\ pc[1] = "raised"
    /\ Len(writeCalls) = 1 /\ writeCalls[1].ok
    /\ Len(insertCalls) = 1 /\ insertCalls[1].outcome = "raise"
    /\ store # << >>

\* the positions of the objects that have a close approach
Kept(objs) == {k \in 1..Len(objs) : Len(objs[k].close_approach_data) > 0}

\* transform_records has returned to the entry point
Transformed(i) ==
    \/ pc[i] \in {"load", "respond", "succeeded"}
    \/ pc[i] = "raised" /\ CallsBy(insertCalls, i) # << >>

\* C6: the Transformer returns, in input order, one record for each object
\* with a non-empty close-approach list, built from that object's first
\* close-approach entry; objects with an empty list are left out without
\* error, so there are at most as many records as objects.
C6_OneRecordPerApproachedObject ==
    \A i \in Invs :
        /\ Transformed(i) =>
              /\ Len(records[i]) = Cardinality(Kept(neos[i]))
              /\ Len(records[i]) <= Len(neos[i])
              /\ \A k \in Kept(neos[i]) :
                    LET r == records[i][Cardinality({m \in Kept(neos[i]) : m <= k})]
                        o == neos[i][k]
                        a == Head(o.close_approach_data)
                    IN  /\ r.asteroid_id = o.neo_reference_id
                        /\ r.name = o.name
                        /\ r.absolute_magnitude_h = o.absolute_magnitude_h.val
                        /\ r.estimated_diameter_min_km =
                              o.estimated_diameter.kilometers.estimated_diameter_min.val
                        /\ r.estimated_diameter_max_km =
                              o.estimated_diameter.kilometers.estimated_diameter_max.val
                        /\ r.is_potentially_hazardous = o.is_potentially_hazardous_asteroid
                        /\ r.close_approach_date = a.close_approach_date
                        /\ r.relative_velocity_km_s =
                              a.relative_velocity.kilometers_per_second.val
                        /\ r.miss_distance_km = a.miss_distance.kilometers.val
                        /\ r.orbiting_body = a.orbiting_body
        /\ (pc[i] = "loop" /\ Kept(neos[i]) = {}) => ENABLED (TransformStep(i) \/ TransformEnd(i))
        /\ (pc[i] = "raised" /\ CallsBy(insertCalls, i) = << >>
                /\ \E k \in 1..Len(writeCalls) : writeCalls[k].inv = i /\ writeCalls[k].ok) =>
              Kept(neos[i]) # {}

C6_Witness ==
    /\ pc[1] = "succeeded"
    /\ Len(neos[1]) = 2
    /\ Len(neos[1][1].close_approach_data) = 0
    /\ Len(neos[1][2].close_approach_data) = 2
    /\ Len(records[1]) = 1

\* C7: when the queried date is not a key of the payload's date mapping the
\* Transformer returns an empty sequence without raising; the invocation has
\* archived the payload, makes no insert call and answers HTTP 200 with
\* rows_inserted 0.
C7_AbsentDateNoRows ==
    \A i \in Invs :
        LET f == CallsBy(fetchCalls, i)
            w == CallsBy(writeCalls, i)
        IN  (/\ pc[i] \in {"loop", "load", "respond", "succeeded", "raised"}
             /\ f # << >> /\ f[1].ok
             /\ w # << >> /\ w[1].ok
             /\ f[1].start_date \notin DOMAIN f[1].payload.near_earth_objects) =>
                /\ neos[i] = << >> /\ records[i] = << >>
                /\ pc[i] \in {"loop", "respond", "succeeded"}
                /\ pc[i] = "loop" => ENABLED TransformEnd(i)
                /\ store[w[1].path] = json_dumps(f[1].payload)
                /\ CallsBy(insertCalls, i) = << >>
                /\ pc[i] = "succeeded" => response[i] = Http200(0, f[1].start_date)

C7_Witness ==
    /\ pc[1] = "succeeded"
    /\ data[1].near_earth_objects # << >>
    /\ \A k \in DOMAIN data[1].near_earth_objects :
          Len(data[1].near_earth_objects[k]) = 2
    /\ DateStr(date[1]) \notin DOMAIN data[1].near_earth_objects
    /\ store # << >>

\* C8: in one invocation the feed fetch, the storage write and the insert
\* happen at most once each and in that order, none is retried, and a
\* successful invocation has made exactly one storage write, whose body is
\* the payload it fetched.
C8_OrderedOnceEach ==
    \A i \in Invs :
        LET f == CallsBy(fetchCalls, i)
            w == CallsBy(writeCalls, i)
            ins == CallsBy(insertCalls, i)
        IN  /\ Len(f) <= 1 /\ Len(w) <= 1 /\ Len(ins) <= 1
            /\ w # << >> => (f # << >> /\ f[1].ok)
            /\ ins # << >> => (w # << >> /\ w[1].ok)
            /\ pc[i] = "succeeded" =>
                  /\ Len(f) = 1 /\ Len(w) = 1
                  /\ w[1].body = json_dumps(f[1].payload)
                  /\ store[w[1].path] = w[1].body

C8_Witness ==
    /\ pc[1] = "succeeded"
    /\ Len(fetchCalls) = 1 /\ Len(writeCalls) = 1 /\ Len(insertCalls) = 1
    /\ Len(insertCalls[1].rows) = 2

\* C9 as claimed: all records of one transform_records call carry the same
\* ingestion timestamp.
C9_OneStampPerBatch ==
    \A i \in Invs : \A a, b \in 1..Len(records[i]) :
        records[i][a].ingestion_timestamp = records[i][b].ingestion_timestamp

\* C9 amended: every record carries the UTC timestamp read when that record
\* is built, one clock reading per record.
C9_StampReadPerRecord ==
    [][\A i \in Invs :
          Len(records'[i]) = Len(records[i]) + 1 =>
              records'[i][Len(records'[i])].ingestion_timestamp = UtcNowIso(clock)]_vars

C9_Witness ==
    /\ pc[1] = "succeeded"
    /\ Len(records[1]) = 2
    /\ records[1][1].ingestion_timestamp # records[1][2].ingestion_timestamp

\* C10: one date is used throughout an invocation: the date the Fetcher read
\* is the start and the end of the feed query, keys the archive path, is the
\* key the Transformer looks up and is the date of the success response,
\* also when the clock passes midnight during the invocation.
C10_OneDateThroughout ==
    \A i \in Invs :
        LET f == CallsBy(fetchCalls, i)
            w == CallsBy(writeCalls, i)
        IN  /\ f # << >> => f[1].start_date = f[1].end_date
            /\ (f # << >> /\ f[1].ok) =>
                  /\ f[1].start_date = DateStr(date[i])
                  /\ \A k \in 1..Len(w) : w[k].path = BlobPath(date[i])
            /\ pc[i] \in {"loop", "load", "respond", "succeeded"} =>
                  neos[i] = DictGet(data[i].near_earth_objects, f[1].start_date, << >>)
            /\ pc[i] = "succeeded" =>
                  response[i] = Http200(Len(records[i]), f[1].start_date)

C10_Witness ==
    /\ pc[1] = "succeeded"
    /\ UtcToday(clock) # date[1]
    /\ records[1] # << >>
    /\ fetchCalls[1].start_date # DateStr(UtcToday(clock))

====
